---- MODULE Spec2Model ----
(***************************************************************************)
(* The sequential VAE with independent latents (IndependentSequence) and   *)
(* its two DistCores, LatentPrior and ObsDist.  Both source variants are   *)
(* modelled: "vaeseq" (src/vaeseq/vae/independent_sequence.py) and         *)
(* "vae_seq" (src/vae_seq/vae/independent_sequence.py).                    *)
(*                                                                         *)
(* Tensors.  Every operation of the core treats the rows of the batch      *)
(* independently, so a [B, T, F] tensor is a record                        *)
(*     [b |-> B, vs |-> <<item_1, ..., item_T>>]                           *)
(* of its batch size and the features of a representative row, one item    *)
(* [t |-> timestep, v |-> feature vector] per position of the time axis.   *)
(* Tensors of random values (samples, divergences) carry their shape only. *)
(***************************************************************************)
EXTENDS Integers, Sequences, FiniteSets, TLC

MaxBatch == 2
MaxSeq == 2
MaxLatent == 2

Val == {0, 1}
Variants == {"vaeseq", "vae_seq"}
BatchSizes == 1..MaxBatch
SeqSizes == 1..MaxSeq
LatentSizes == 1..MaxLatent

VARIABLES
  variant, hp_batch, hp_latent,
  ipc, contexts, observed, batch_size, enc_observed, e_in, e_state, e_outs,
  rev_in, f_state, rev_outs, f_outs, q_zs, latents, p_zs, divs, ilog, iret,
  warm,
  gpc, g_batch, g_steps, z_state, d_state, d_twin, twin_differs, gen_latents,
  gen_obs, gret,
  p_ret, p_log, p_state,
  r_pc, r_cell, r_inputs, r_init, r_outs, r_ref

cfgVars == <<variant, hp_batch, hp_latent>>
infVars == <<ipc, contexts, observed, batch_size, enc_observed, e_in, e_state,
             e_outs, rev_in, f_state, rev_outs, f_outs, q_zs, latents, p_zs,
             divs, ilog, iret, warm>>
genVars == <<gpc, g_batch, g_steps, z_state, d_state, d_twin, twin_differs,
             gen_latents, gen_obs, gret>>
priorVars == <<p_ret, p_log, p_state>>
revVars == <<r_pc, r_cell, r_inputs, r_init, r_outs, r_ref>>
vars == <<cfgVars, infVars, genVars, priorVars, revVars>>

(***************************************************************************)
(* Values                                                                  *)
(***************************************************************************)
NoTensor == [b |-> 0, vs |-> <<>>]
NoState == [b |-> 0, v |-> 0]
NoShape == <<>>
NoDist == [shape |-> <<>>, loc |-> 0, scale |-> 0]
NoRet == [latents |-> <<>>, divs |-> <<>>, observed |-> <<>>]
NoGenRet == [generated |-> <<>>, latents |-> <<>>]

\* hparams.obs_shape of the tests: one-hot over two categories.
ObsShape == <<2>>

RECURSIVE SumVec(_)
SumVec(v) == IF v = <<>> THEN 0 ELSE Head(v) + SumVec(Tail(v))

\* All sequences over S of length 1..n.
SeqsUpTo(S, n) == UNION {[1..k -> S] : k \in 1..n}

\* The tensors a caller can pass: batch b, one feature per timestep.
InputTensors ==
  {[b |-> b, vs |-> [i \in 1..Len(s) |-> [t |-> i, v |-> <<s[i]>>]]] :
     b \in BatchSizes, s \in SeqsUpTo(Val, MaxSeq)}

SeqLen(x) == Len(x.vs)
TensorShape(x, rest) == <<x.b, SeqLen(x)>> \o rest

(***************************************************************************)
(* Collaborators: recurrent cells, encoders, decoders, util                *)
(***************************************************************************)
\* One step of a recurrent cell on one row: (input, state) -> (output, state).
\* "id" is the cell whose step is the identity; d, e and f are the three
\* independently parameterised cells of _init_submodules.
CellStep(cell, in, s) ==
  CASE cell = "id" -> [out |-> in, state |-> s]
    [] cell = "e" -> LET n == (SumVec(in) + s + 1) % 2 IN [out |-> <<n>>, state |-> n]
    [] cell = "f" -> LET n == (SumVec(in) * (s + 1)) % 2 IN [out |-> <<n>>, state |-> n]
    [] cell = "d" -> LET n == (SumVec(in) + s) % 2 IN [out |-> <<n>>, state |-> n]

\* cell.initial_state(batch_size): the zero state, one row per batch element.
InitialState(cell, b) == [b |-> b, v |-> 0]

\* tf.nn.dynamic_rnn on one row: left to right over the time axis.
RECURSIVE DynamicRnnFrom(_, _, _, _)
DynamicRnnFrom(cell, items, s, acc) ==
  IF items = <<>> THEN [outs |-> acc, state |-> s]
  ELSE LET r == CellStep(cell, Head(items).v, s)
       IN DynamicRnnFrom(cell, Tail(items), r.state,
                         Append(acc, [t |-> Head(items).t, v |-> r.out]))

DynamicRnn(cell, items, s) == DynamicRnnFrom(cell, items, s, <<>>)

\* tf.reverse along the time axis.
ReverseTime(items) == [i \in 1..Len(items) |-> items[Len(items) + 1 - i]]

\* The outputs of the sweep over the reversed input, left as they come.
ReverseDynamicRnn_unreversed(cell, items, s) ==
  LET r == DynamicRnn(cell, ReverseTime(items), s)
  IN [outs |-> r.outs, state |-> r.state]

\* util.reverse_dynamic_rnn: reverse the input, sweep forward, reverse back.
ReverseDynamicRnn(cell, items, s) ==
  LET r == DynamicRnn(cell, ReverseTime(items), s)
  IN [outs |-> ReverseTime(r.outs), state |-> r.state]

\* The observation encoder, applied to one observation.
ObsEncoder(v) == <<(SumVec(v) + 1) % 2>>

\* The latent parameter decoder q_z, applied to one fused output.
LatentDecoder(v) == <<SumVec(v), 1 + SumVec(v)>>

\* snt.BatchApply(fn, n_dims=2): fn at every (batch, time) position.
ApplyModule(module, v) ==
  CASE module = "obs_encoder" -> ObsEncoder(v)
    [] module = "q_z" -> LatentDecoder(v)
BatchApply(module, x) ==
  [b |-> x.b,
   vs |-> [i \in 1..SeqLen(x) |-> [t |-> x.vs[i].t, v |-> ApplyModule(module, x.vs[i].v)]]]

\* util.concat_features on two sequences: defined when batch and time agree.
ConcatOK(x, y) == x.b = y.b /\ SeqLen(x) = SeqLen(y)
ConcatFeatures(x, y) ==
  [b |-> x.b, vs |-> [i \in 1..SeqLen(x) |-> [t |-> x.vs[i].t, v |-> x.vs[i].v \o y.vs[i].v]]]

\* tf.zeros_like / tf.ones_like, and MultivariateNormalDiag(loc, scale_diag).
ZerosLike(x) == [shape |-> x.shape, fill |-> 0]
OnesLike(x) == [shape |-> x.shape, fill |-> 1]
MultivariateNormalDiag(loc, scale_diag) ==
  [shape |-> loc.shape, loc |-> loc.fill, scale |-> scale_diag.fill]

\* tf.zeros(dims) / tf.ones(dims).
Zeros(dims) == [shape |-> dims, fill |-> 0]
Ones(dims) == [shape |-> dims, fill |-> 1]

\* util.batch_size_from_nested_tensors: the leading dimension.
BatchSizeFromNestedTensors(x) == x.b

\* A sample of a distribution has the distribution's shape.
Sample(dist) == [shape |-> dist.shape]

\* util.calc_kl: one divergence per batch position, the event axis reduced.
CalcKL(z, q, p) == [shape |-> SubSeq(q.shape, 1, Len(q.shape) - 1)]

(***************************************************************************)
(* LatentPrior                                                             *)
(***************************************************************************)
LatentPriorStateSize == <<>>

\* vae_seq: the distribution LatentPrior.__init__ builds once, self._dist.
LatentPriorInitDist ==
  LET dims == <<hp_batch, hp_latent>>
  IN MultivariateNormalDiag(Zeros(dims), Ones(dims))

\* dist with the two dimensions stacked the other way round.
LatentPriorDist_swapped(arg) ==
  IF variant = "vaeseq"
  THEN LET dims == <<hp_latent, arg[1]>>
       IN MultivariateNormalDiag(Zeros(dims), Ones(dims))
  ELSE LatentPriorInitDist

\* dist built from the configured batch size whatever its argument.
LatentPriorDist_configured(arg) == LatentPriorInitDist

\* LatentPrior.dist: vaeseq builds it per call from its argument, the batch
\* size; vae_seq drops its argument and returns self._dist.
LatentPriorDist(arg) ==
  IF variant = "vaeseq"
  THEN LET dims == <<arg[1], hp_latent>>
       IN MultivariateNormalDiag(Zeros(dims), Ones(dims))
  ELSE LatentPriorInitDist

\* next_state handing the event on as the state.
LatentPriorNextState_event(state_arg, event) == event

LatentPriorNextState(state_arg, event) == <<>>

\* LatentPrior._build(context, state) -> (params, next state).  The scalar
\* batch size is the 1-tuple <<b>>, the empty params () are <<>>.
LatentPriorBuild(context, state) ==
  IF variant = "vaeseq"
  THEN [params |-> <<BatchSizeFromNestedTensors(context)>>, state |-> <<>>]
  ELSE [params |-> <<>>, state |-> <<>>]

(***************************************************************************)
(* ObsDist                                                                 *)
(***************************************************************************)
\* The observation decoder on (d_out, latent): their batch sizes must agree.
ObsDecoderOK(d_out, latent) == d_out.b = latent.shape[1]
ObsDecoder(d_out, latent) == [b |-> d_out.b, v |-> <<(SumVec(d_out.v) + latent.v) % 2>>]

\* ObsDist.dist(params): a distribution over observations, one per row.
ObsDistDist(params) == [shape |-> <<params.b>> \o ObsShape]

\* ObsDist._next_state(d_state, event).
ObsDistNextState(state, event) == state

\* _build feeding the latent to the cell along with the context.
ObsDistBuild_latent(inputs, state) ==
  LET context == inputs[1]
      latent == inputs[2]
      r == CellStep("d", context.v \o <<latent.v>>, state.v)
  IN [params |-> ObsDecoder([b |-> context.b, v |-> r.out], latent),
      state |-> [b |-> state.b, v |-> r.state]]

\* ObsDist._build((context, latent), d_state) -> (params, d_state).
ObsDistBuild(inputs, state) ==
  LET context == inputs[1]
      latent == inputs[2]
      r == CellStep("d", context.v, state.v)
  IN [params |-> ObsDecoder([b |-> context.b, v |-> r.out], latent),
      state |-> [b |-> state.b, v |-> r.state]]

(***************************************************************************)
(* IndependentSequence.infer_latents                                       *)
(***************************************************************************)
RestPcs == {"idle", "returned", "failed"}

\* batch_size of infer_latents: from the observed tensor (vaeseq) or from
\* the hyperparameters (vae_seq).
InferBatchSize(obs) ==
  IF variant = "vaeseq" THEN BatchSizeFromNestedTensors(obs) ELSE hp_batch

\* A sweep started from the state the cell's last sweep ended in.
SweepInitialState_kept(cell, prev, b) ==
  IF prev = NoState THEN InitialState(cell, b) ELSE prev

\* initial_state=cell.initial_state(batch_size): a sweep starts from the
\* cell's default, whatever state an earlier sweep of the cell ended in (prev).
\* The value depends on batch_size alone and is taken where batch_size is set.
SweepInitialState(cell, prev, b) == InitialState(cell, b)

\* The posterior parameters decoded from the last fused output alone.
PosteriorParams_last(outs) ==
  BatchApply("q_z", [outs EXCEPT !.vs = <<outs.vs[Len(outs.vs)]>>])

\* q_zs: the posterior over every (batch, time) position.
PosteriorParams(outs) == BatchApply("q_z", outs)
QZDist(params) ==
  [shape |-> TensorShape(params, <<hp_latent>>), params |-> params.vs]

InferLocalsCleared ==
  /\ enc_observed' = NoTensor /\ e_in' = NoTensor /\ e_outs' = NoTensor
  /\ rev_in' = NoTensor /\ rev_outs' = NoTensor /\ f_outs' = NoTensor
  /\ q_zs' = NoDist /\ latents' = [shape |-> <<>>] /\ p_zs' = NoDist
  /\ divs' = [shape |-> <<>>]

InferStart(c, o) ==
  /\ ipc \in RestPcs /\ gpc = "idle"
  /\ contexts' = c /\ observed' = o
  /\ batch_size' = InferBatchSize(o)
  /\ ipc' = "encode" /\ ilog' = <<>> /\ iret' = NoRet
  /\ e_state' = SweepInitialState("e", e_state, InferBatchSize(o))
  /\ f_state' = SweepInitialState("f", f_state, InferBatchSize(o))
  /\ InferLocalsCleared
  /\ UNCHANGED warm
  /\ UNCHANGED <<cfgVars, genVars, priorVars, revVars>>

InferEncode ==
  /\ ipc = "encode"
  /\ enc_observed' = BatchApply("obs_encoder", observed)
  /\ ipc' = "concat"
  /\ UNCHANGED <<contexts, observed, batch_size, e_in, e_state, e_outs, rev_in,
                 f_state, rev_outs, f_outs, q_zs, latents, p_zs, divs, ilog, iret, warm>>
  /\ UNCHANGED <<cfgVars, genVars, priorVars, revVars>>

\* The forward sweep started on the encoded observations whenever the
\* contexts do not line up with them.
InferConcat_unchecked ==
  /\ ipc = "concat"
  /\ e_in' = IF ConcatOK(contexts, enc_observed)
             THEN ConcatFeatures(contexts, enc_observed) ELSE enc_observed
  /\ e_outs' = [b |-> enc_observed.b, vs |-> <<>>]
  /\ ipc' = "fwd"
  /\ UNCHANGED <<contexts, observed, batch_size, enc_observed, e_state, rev_in,
                 f_state, rev_outs, f_outs, q_zs, latents, p_zs, divs, ilog, iret, warm>>
  /\ UNCHANGED <<cfgVars, genVars, priorVars, revVars>>

\* util.concat_features((contexts, enc_observed)), the input of the forward
\* sweep; a misaligned pair raises here.
InferConcat ==
  /\ ipc = "concat"
  /\ IF ConcatOK(contexts, enc_observed)
     THEN /\ e_in' = ConcatFeatures(contexts, enc_observed)
          /\ e_outs' = [b |-> contexts.b, vs |-> <<>>]
          /\ ipc' = "fwd"
     ELSE /\ ipc' = "error"
          /\ UNCHANGED <<e_in, e_outs>>
  /\ UNCHANGED <<contexts, observed, batch_size, enc_observed, e_state, rev_in,
                 f_state, rev_outs, f_outs, q_zs, latents, p_zs, divs, ilog, iret, warm>>
  /\ UNCHANGED <<cfgVars, genVars, priorVars, revVars>>

\* One step of tf.nn.dynamic_rnn(self._e_core, ...).
InferForwardStep ==
  /\ ipc = "fwd"
  /\ LET k == SeqLen(e_outs) + 1
         item == e_in.vs[k]
         r == CellStep("e", item.v, e_state.v)
     IN IF e_in.b # e_state.b
        THEN /\ ipc' = "error"
             /\ UNCHANGED <<e_state, e_outs, ilog>>
        ELSE /\ e_state' = [e_state EXCEPT !.v = r.state]
             /\ e_outs' = [e_outs EXCEPT !.vs = Append(@, [t |-> item.t, v |-> r.out])]
             /\ ilog' = Append(ilog, [cell |-> "e", t |-> item.t,
                                      sin |-> e_state.v, sout |-> r.state])
             /\ ipc' = IF k = SeqLen(e_in) THEN "rev_in" ELSE "fwd"
  /\ UNCHANGED <<contexts, observed, batch_size, enc_observed, e_in, rev_in,
                 f_state, rev_outs, f_outs, q_zs, latents, p_zs, divs, iret, warm>>
  /\ UNCHANGED <<cfgVars, genVars, priorVars, revVars>>

\* The backward sweep run over e_outs as they are (tf.nn.dynamic_rnn).
BackwardSweepInput_forward(outs) == outs

\* The time axis the backward sweep of infer_latents runs over:
\* util.reverse_dynamic_rnn reverses e_outs.
BackwardSweepInput(outs) == [outs EXCEPT !.vs = ReverseTime(@)]

InferReverseInput ==
  /\ ipc = "rev_in"
  /\ rev_in' = BackwardSweepInput(e_outs)
  /\ rev_outs' = [b |-> e_outs.b, vs |-> <<>>]
  /\ ipc' = "bwd"
  /\ UNCHANGED <<contexts, observed, batch_size, enc_observed, e_in, e_state,
                 e_outs, f_state, f_outs, q_zs, latents, p_zs, divs, ilog, iret, warm>>
  /\ UNCHANGED <<cfgVars, genVars, priorVars, revVars>>

\* One step of the sweep of self._f_core inside util.reverse_dynamic_rnn.
InferBackwardStep ==
  /\ ipc = "bwd"
  /\ LET k == SeqLen(rev_outs) + 1
         item == rev_in.vs[k]
         r == CellStep("f", item.v, f_state.v)
     IN IF rev_in.b # f_state.b
        THEN /\ ipc' = "error"
             /\ UNCHANGED <<f_state, rev_outs, ilog>>
        ELSE /\ f_state' = [f_state EXCEPT !.v = r.state]
             /\ rev_outs' = [rev_outs EXCEPT !.vs = Append(@, [t |-> item.t, v |-> r.out])]
             /\ ilog' = Append(ilog, [cell |-> "f", t |-> item.t,
                                      sin |-> f_state.v, sout |-> r.state])
             /\ ipc' = IF k = SeqLen(rev_in) THEN "rev_out" ELSE "bwd"
  /\ UNCHANGED <<contexts, observed, batch_size, enc_observed, e_in, e_state,
                 e_outs, rev_in, f_outs, q_zs, latents, p_zs, divs, iret, warm>>
  /\ UNCHANGED <<cfgVars, genVars, priorVars, revVars>>

InferReverseOutput ==
  /\ ipc = "rev_out"
  /\ f_outs' = [rev_outs EXCEPT !.vs = ReverseTime(@)]
  /\ ipc' = "decode"
  /\ UNCHANGED <<contexts, observed, batch_size, enc_observed, e_in, e_state,
                 e_outs, rev_in, f_state, rev_outs, q_zs, latents, p_zs, divs,
                 ilog, iret, warm>>
  /\ UNCHANGED <<cfgVars, genVars, priorVars, revVars>>

InferPosterior ==
  /\ ipc = "decode"
  /\ q_zs' = QZDist(PosteriorParams(f_outs))
  /\ ipc' = "sample"
  /\ UNCHANGED <<contexts, observed, batch_size, enc_observed, e_in, e_state,
                 e_outs, rev_in, f_state, rev_outs, f_outs, latents, p_zs, divs,
                 ilog, iret, warm>>
  /\ UNCHANGED <<cfgVars, genVars, priorVars, revVars>>

InferSample ==
  /\ ipc = "sample"
  /\ latents' = Sample(q_zs)
  /\ ipc' = "prior"
  /\ UNCHANGED <<contexts, observed, batch_size, enc_observed, e_in, e_state,
                 e_outs, rev_in, f_state, rev_outs, f_outs, q_zs, p_zs, divs,
                 ilog, iret, warm>>
  /\ UNCHANGED <<cfgVars, genVars, priorVars, revVars>>

\* The inline prior with its scale built by zeros_like.
InlinePrior_zeroscale(z) == MultivariateNormalDiag(ZerosLike(z), ZerosLike(z))

\* p_zs of infer_latents: the prior built inline, shaped like the latents.
InlinePrior(z) == MultivariateNormalDiag(ZerosLike(z), OnesLike(z))

InferPrior ==
  /\ ipc = "prior"
  /\ p_zs' = InlinePrior(latents)
  /\ ipc' = "kl"
  /\ UNCHANGED <<contexts, observed, batch_size, enc_observed, e_in, e_state,
                 e_outs, rev_in, f_state, rev_outs, f_outs, q_zs, latents, divs,
                 ilog, iret, warm>>
  /\ UNCHANGED <<cfgVars, genVars, priorVars, revVars>>

InferKL ==
  /\ ipc = "kl"
  /\ divs' = CalcKL(latents, q_zs, p_zs)
  /\ ipc' = "ret"
  /\ UNCHANGED <<contexts, observed, batch_size, enc_observed, e_in, e_state,
                 e_outs, rev_in, f_state, rev_outs, f_outs, q_zs, latents, p_zs,
                 ilog, iret, warm>>
  /\ UNCHANGED <<cfgVars, genVars, priorVars, revVars>>

\* return latents, divs: the caller keeps the results and its own observed
\* tensor; the locals of the call are gone, the final sweep states dropped.
InferReturn ==
  /\ ipc = "ret"
  /\ iret' = [latents |-> latents.shape, divs |-> divs.shape,
              observed |-> TensorShape(observed, ObsShape)]
  /\ ipc' = "returned"
  /\ contexts' = NoTensor /\ observed' = NoTensor /\ ilog' = <<>>
  /\ InferLocalsCleared /\ batch_size' = 0
  /\ warm' = TRUE
  /\ UNCHANGED <<e_state, f_state>>
  /\ UNCHANGED <<cfgVars, genVars, priorVars, revVars>>

\* The error leaves infer_latents: nothing is returned.
InferUnwind ==
  /\ ipc = "error"
  /\ ipc' = "failed"
  /\ contexts' = NoTensor /\ observed' = NoTensor /\ ilog' = <<>>
  /\ InferLocalsCleared /\ batch_size' = 0
  /\ UNCHANGED <<e_state, f_state, iret, warm>>
  /\ UNCHANGED <<cfgVars, genVars, priorVars, revVars>>

(***************************************************************************)
(* The generation pass over the composed core (LatentPrior, then ObsDist)  *)
(***************************************************************************)
Events == {<<>>, <<0>>, <<1>>}

\* The per-step shapes stacked along the time axis.
Stack(steps) == IF steps = <<>> THEN <<>>
                ELSE <<steps[1][1], Len(steps)>> \o Tail(steps[1])

\* A pass asked for batch size b and n steps.  d_twin is the decoder state
\* of a second rollout over the same contexts whose latents and sampled
\* events are drawn separately.
GenStart(b, n) ==
  /\ gpc = "idle" /\ ipc \in RestPcs
  /\ g_batch' = b /\ g_steps' = n
  /\ z_state' = LatentPriorStateSize
  /\ d_state' = InitialState("d", b)
  /\ d_twin' = InitialState("d", b)
  /\ twin_differs' = FALSE
  /\ gen_latents' = <<>> /\ gen_obs' = <<>> /\ gret' = NoGenRet
  /\ gpc' = "step"
  /\ UNCHANGED <<cfgVars, infVars, priorVars, revVars>>

\* One step: the context of the step, a latent from LatentPrior, the
\* parameters and the decoder state from ObsDist, a sampled observation.
GenStep(c, z1, z2, x1, x2) ==
  /\ gpc = "step"
  /\ LET context == [b |-> g_batch, v |-> <<c>>]
         zr == LatentPriorBuild(context, z_state)
         zdist == LatentPriorDist(zr.params)
         latent1 == [shape |-> Sample(zdist).shape, v |-> z1]
         latent2 == [shape |-> Sample(zdist).shape, v |-> z2]
         d_out == [b |-> context.b, v |-> <<>>]
     IN /\ z_state' = LatentPriorNextState(zr.state, latent1)
        /\ gen_latents' = Append(gen_latents, latent1.shape)
        /\ IF ObsDecoderOK(d_out, latent1)
           THEN LET r1 == ObsDistBuild(<<context, latent1>>, d_state)
                    r2 == ObsDistBuild(<<context, latent2>>, d_twin)
                IN /\ gen_obs' = Append(gen_obs, Sample(ObsDistDist(r1.params)).shape)
                   /\ d_state' = ObsDistNextState(r1.state, x1)
                   /\ d_twin' = ObsDistNextState(r2.state, x2)
                   /\ twin_differs' = (twin_differs \/ z1 # z2 \/ x1 # x2)
                   /\ gpc' = IF Len(gen_obs) + 1 = g_steps THEN "ret" ELSE "step"
           ELSE /\ gpc' = "error"
                /\ UNCHANGED <<gen_obs, d_state, d_twin, twin_differs>>
  /\ UNCHANGED <<g_batch, g_steps, gret>>
  /\ UNCHANGED <<cfgVars, infVars, priorVars, revVars>>

GenReturn ==
  /\ gpc = "ret"
  /\ gret' = [generated |-> Stack(gen_obs), latents |-> Stack(gen_latents)]
  /\ gen_obs' = <<>> /\ gen_latents' = <<>>
  /\ gpc' = "returned"
  /\ UNCHANGED <<g_batch, g_steps, z_state, d_state, d_twin, twin_differs>>
  /\ UNCHANGED <<cfgVars, infVars, priorVars, revVars>>

\* The caller is done with the pass (or the pass has failed).
GenDrop ==
  /\ gpc \in {"returned", "error"}
  /\ gpc' = "idle"
  /\ gret' = NoGenRet /\ gen_obs' = <<>> /\ gen_latents' = <<>>
  /\ g_batch' = 0 /\ g_steps' = 0 /\ z_state' = <<>>
  /\ d_state' = NoState /\ d_twin' = NoState /\ twin_differs' = FALSE
  /\ UNCHANGED <<cfgVars, infVars, priorVars, revVars>>

(***************************************************************************)
(* Direct calls of LatentPrior                                             *)
(***************************************************************************)
States == {<<>>, <<0>>, <<1>>}

PriorDist(b) ==
  /\ LET res == LatentPriorDist(<<b>>)
     IN /\ p_ret' = [op |-> "dist", arg |-> b, res |-> res]
        /\ p_log' = p_log \cup {<<b, res>>}
  /\ UNCHANGED p_state
  /\ UNCHANGED <<cfgVars, infVars, genVars, revVars>>

PriorStep(b, c, state) ==
  /\ p_ret' = [op |-> "step", arg |-> b,
               res |-> LatentPriorBuild([b |-> b, v |-> <<c>>], state)]
  /\ UNCHANGED <<p_log, p_state>>
  /\ UNCHANGED <<cfgVars, infVars, genVars, revVars>>

PriorNextState(state, event) ==
  /\ p_ret' = [op |-> "next_state", arg |-> 0,
               res |-> LatentPriorNextState(state, event)]
  /\ UNCHANGED <<p_log, p_state>>
  /\ UNCHANGED <<cfgVars, infVars, genVars, revVars>>

\* One step of a rollout over LatentPrior: step, sample, next_state.
PriorRolloutStep(b, c, event) ==
  /\ LET r == LatentPriorBuild([b |-> b, v |-> <<c>>], p_state)
     IN /\ p_state' = LatentPriorNextState(r.state, event)
        /\ p_ret' = [op |-> "rollout", arg |-> b, res |-> r]
  /\ UNCHANGED p_log
  /\ UNCHANGED <<cfgVars, infVars, genVars, revVars>>

(***************************************************************************)
(* The reverse sweep on its own                                            *)
(***************************************************************************)
Cells == {"id", "e", "f", "d"}

InputItems ==
  {[i \in 1..Len(s) |-> [t |-> i, v |-> <<s[i]>>]] : s \in SeqsUpTo(Val, MaxSeq)}

\* A backward sweep proper: from the last timestep down to the first.
RECURSIVE BackwardSweepFrom(_, _, _, _, _)
BackwardSweepFrom(cell, items, k, s, acc) ==
  IF k = 0 THEN [outs |-> acc, state |-> s]
  ELSE LET r == CellStep(cell, items[k].v, s)
       IN BackwardSweepFrom(cell, items, k - 1, r.state,
                            <<[t |-> items[k].t, v |-> r.out]>> \o acc)

BackwardSweep(cell, items, s) == BackwardSweepFrom(cell, items, Len(items), s, <<>>)

RevApply ==
  /\ r_pc \in {"start", "ref"}
  /\ r_outs' = ReverseDynamicRnn(r_cell, r_inputs, r_init).outs
  /\ r_pc' = IF r_pc = "start" THEN "applied" ELSE "both"
  /\ UNCHANGED <<r_cell, r_inputs, r_init, r_ref>>
  /\ UNCHANGED <<cfgVars, infVars, genVars, priorVars>>

RevBackward ==
  /\ r_pc \in {"start", "applied"}
  /\ r_ref' = BackwardSweep(r_cell, r_inputs, r_init).outs
  /\ r_pc' = IF r_pc = "start" THEN "ref" ELSE "both"
  /\ UNCHANGED <<r_cell, r_inputs, r_init, r_outs>>
  /\ UNCHANGED <<cfgVars, infVars, genVars, priorVars>>

(***************************************************************************)
(* Specifications                                                          *)
(***************************************************************************)
InitCfg ==
  /\ variant \in Variants /\ hp_batch \in BatchSizes /\ hp_latent \in LatentSizes

InitInf ==
  /\ ipc = "idle" /\ contexts = NoTensor /\ observed = NoTensor /\ batch_size = 0
  /\ enc_observed = NoTensor /\ e_in = NoTensor /\ e_state = NoState
  /\ e_outs = NoTensor /\ rev_in = NoTensor /\ f_state = NoState
  /\ rev_outs = NoTensor /\ f_outs = NoTensor /\ q_zs = NoDist
  /\ latents = [shape |-> <<>>] /\ p_zs = NoDist /\ divs = [shape |-> <<>>]
  /\ ilog = <<>> /\ iret = NoRet /\ warm = FALSE

InitGen ==
  /\ gpc = "idle" /\ g_batch = 0 /\ g_steps = 0 /\ z_state = <<>>
  /\ d_state = NoState /\ d_twin = NoState /\ twin_differs = FALSE
  /\ gen_latents = <<>> /\ gen_obs = <<>> /\ gret = NoGenRet

InitPrior ==
  /\ p_ret = [op |-> "none", arg |-> 0, res |-> <<>>] /\ p_log = {}
  /\ p_state = LatentPriorStateSize

InitRevIdle ==
  /\ r_pc = "idle" /\ r_cell = "id" /\ r_inputs = <<>> /\ r_init = 0
  /\ r_outs = <<>> /\ r_ref = <<>>

Init == InitCfg /\ InitInf /\ InitGen /\ InitPrior /\ InitRevIdle

Next ==
  \/ \E c \in InputTensors, o \in InputTensors : InferStart(c, o)
  \/ InferEncode
  \/ InferConcat
  \/ InferForwardStep
  \/ InferReverseInput
  \/ InferBackwardStep
  \/ InferReverseOutput
  \/ InferPosterior
  \/ InferSample
  \/ InferPrior
  \/ InferKL
  \/ InferReturn
  \/ InferUnwind
  \/ \E b \in BatchSizes, n \in SeqSizes : GenStart(b, n)
  \/ \E c \in Val, z1 \in Val, z2 \in Val, x1 \in Events, x2 \in Events :
       GenStep(c, z1, z2, x1, x2)
  \/ GenReturn
  \/ GenDrop

Spec == Init /\ [][Next]_vars

\* LatentPrior called directly, in any order, any number of times.
NextPrior ==
  \/ \E b \in BatchSizes : PriorDist(b)
  \/ \E b \in BatchSizes, c \in Val, s \in States : PriorStep(b, c, s)
  \/ \E s \in States, e \in Events : PriorNextState(s, e)
  \/ \E b \in BatchSizes, c \in Val, e \in Events : PriorRolloutStep(b, c, e)

SpecPrior == Init /\ [][NextPrior]_vars

\* The reverse sweep applied to every cell, input sequence and initial state.
InitRev ==
  /\ InitCfg /\ InitInf /\ InitGen /\ InitPrior
  /\ r_pc = "start" /\ r_cell \in Cells /\ r_inputs \in InputItems /\ r_init \in Val
  /\ r_outs = <<>> /\ r_ref = <<>>

NextRev == RevApply \/ RevBackward

SpecRev == InitRev /\ [][NextRev]_vars

(***************************************************************************)
(* Properties                                                              *)
(***************************************************************************)
ObservedBT == <<observed.b, SeqLen(observed)>>
Misaligned(c, o) == c.b # o.b \/ SeqLen(c) # SeqLen(o)
AfterSweeps == {"decode", "sample", "prior", "kl", "ret"}

\* C1: infer_latents returns latents and divergences whose batch and time
\* dimensions are those of observed, one per (batch element, timestep), the
\* timesteps in order, none dropped or added on the way.
C1_InferShapes ==
  /\ ipc = "ret" =>
       /\ SubSeq(latents.shape, 1, 2) = ObservedBT
       /\ SubSeq(divs.shape, 1, 2) = ObservedBT
       /\ Len(q_zs.params) = SeqLen(observed)
       /\ \A i \in 1..Len(q_zs.params) : q_zs.params[i].t = i
  /\ ipc = "returned" =>
       /\ SubSeq(iret.latents, 1, 2) = SubSeq(iret.observed, 1, 2)
       /\ SubSeq(iret.divs, 1, 2) = SubSeq(iret.observed, 1, 2)

C1_Witness == ipc = "ret" /\ observed.b > 1 /\ SeqLen(observed) > 1

C3_DistOfArgument ==
  /\ p_ret.op = "dist" =>
       p_ret.res = [shape |-> <<p_ret.arg, hp_latent>>, loc |-> 0, scale |-> 1]
  /\ \A x \in p_log, y \in p_log : x[1] = y[1] => x[2] = y[2]

\* C3 (amended): the distribution has mean 0 and scale 1 and latent_size
\* components per row; its batch dimension is the argument in the vaeseq
\* variant and the configured batch size in the vae_seq variant; repeated
\* calls with the same argument return identical parameters.
C3_DistConstant ==
  /\ p_ret.op = "dist" =>
       p_ret.res = [shape |-> <<IF variant = "vaeseq" THEN p_ret.arg ELSE hp_batch,
                                hp_latent>>,
                    loc |-> 0, scale |-> 1]
  /\ \A x \in p_log, y \in p_log : x[1] = y[1] => x[2] = y[2]

C3_Witness ==
  /\ p_ret.op = "dist" /\ variant = "vae_seq" /\ p_ret.arg # hp_batch
  /\ Cardinality(p_log) > 1

\* C4: when contexts and observed disagree in batch size or in sequence
\* length, infer_latents raises at the concatenation, before any step of the
\* forward or of the backward sweep, and returns nothing.
C4_FailFast ==
  /\ (ipc \notin RestPcs /\ Misaligned(contexts, observed)) =>
       /\ ipc \in {"encode", "concat", "error"}
       /\ ilog = <<>>
  /\ ipc \in {"encode", "concat", "error", "failed"} => iret = NoRet

C4_Witness == ipc = "error" /\ Misaligned(contexts, observed)

\* C5 (as claimed): LatentPrior.step returns the batch size of the context as
\* its parameters and () as the next state; state_size is (); next_state
\* returns (); a rollout carries the empty state only.
C5_StepBatchSize ==
  /\ LatentPriorStateSize = <<>>
  /\ p_ret.op \in {"step", "rollout"} =>
       /\ p_ret.res.params = <<p_ret.arg>>
       /\ p_ret.res.state = <<>>
  /\ p_ret.op = "next_state" => p_ret.res = <<>>
  /\ p_state = <<>>

\* C5 (amended): as claimed, but the parameters step returns are the batch
\* size of the context in the vaeseq variant and the empty tuple () in the
\* vae_seq variant.
C5_StepStateless ==
  /\ LatentPriorStateSize = <<>>
  /\ p_ret.op \in {"step", "rollout"} =>
       /\ p_ret.res.params = IF variant = "vaeseq" THEN <<p_ret.arg>> ELSE <<>>
       /\ p_ret.res.state = <<>>
  /\ p_ret.op = "next_state" => p_ret.res = <<>>
  /\ p_state = <<>>

C5_Witness == p_ret.op = "rollout" /\ p_ret.arg > 1 /\ variant = "vae_seq"

C7_SweepOrder ==
  LET T == SeqLen(e_in)
  IN /\ Len(ilog) <= 2 * T
     /\ \A i \in 1..Len(ilog) :
          IF i <= T
          THEN ilog[i].cell = "e" /\ ilog[i].t = i
          ELSE /\ ilog[i].cell = "f" /\ ilog[i].t = 2 * T + 1 - i
               /\ ilog[i].sin = IF i = T + 1 THEN InitialState("f", batch_size).v
                                ELSE ilog[i - 1].sout
     /\ ipc \in {"rev_in", "bwd"} => Len(ilog) >= T
     /\ ipc \in {"rev_out"} \cup AfterSweeps => Len(ilog) = 2 * T

C7_Witness == ipc = "decode" /\ SeqLen(e_in) > 1

\* C8: reversing the input, sweeping forward and reversing the outputs gives
\* at every timestep the output of a backward sweep proper from T down to 1;
\* with the identity cell the outputs are the inputs in their order.
C8_ReverseSweep ==
  /\ r_pc = "both" => r_outs = r_ref
  /\ (r_pc \in {"applied", "both"} /\ r_cell = "id") => r_outs = r_inputs

C8_Witness ==
  /\ r_pc = "both" /\ r_cell = "d" /\ Len(r_inputs) > 1
  /\ r_inputs[1].v # r_inputs[2].v

\* What a pass computes from its inputs when it runs alone.
AloneEOuts ==
  DynamicRnn("e", ConcatFeatures(contexts, BatchApply("obs_encoder", observed)).vs,
             InitialState("e", observed.b).v).outs
AloneFOuts ==
  ReverseDynamicRnn("f", AloneEOuts, InitialState("f", observed.b).v).outs
AlonePosterior ==
  BatchApply("q_z", [b |-> observed.b, vs |-> AloneFOuts]).vs

PriorSlice(p, t) == [shape |-> <<p.shape[1], p.shape[3]>>, loc |-> p.loc, scale |-> p.scale]

\* C10: the prior of the divergence has mean 0 and scale 1 in the shape
\* [B, T, latent_size] of the sampled latents, and each timestep of it is the
\* distribution LatentPrior.dist gives for the batch size of observed.
C10_PriorsAgree ==
  ipc \in {"kl", "ret"} =>
    /\ p_zs.shape = latents.shape
    /\ p_zs.shape = ObservedBT \o <<hp_latent>>
    /\ p_zs.loc = 0 /\ p_zs.scale = 1
    /\ \A t \in 1..p_zs.shape[2] :
         PriorSlice(p_zs, t) = LatentPriorDist(<<observed.b>>)

C10_Witness == ipc = "kl" /\ observed.b > 1 /\ SeqLen(observed) > 1

====
